---- MODULE Spec2Model ----
(***************************************************************************)
(* A model of package irpc (src/irpc.go): the Registry, its RWMutex, the   *)
(* handlers map, RegisterContract / makeHandler / Register / Call /        *)
(* ValidateImpl, run by goroutines that interleave at the lock operations  *)
(* and at the map accesses.                                                *)
(***************************************************************************)
EXTENDS Integers, Sequences, FiniteSets, TLC

VARIABLES config, handlers, mu, th, nops, everReg

vars == <<config, handlers, mu, th, nops, everReg>>

(***************************************************************************)
(* Bounds of the model.                                                    *)
(***************************************************************************)
\* the number of registry operations started in one behaviour
MaxOps == 3

\* the same, when the goroutines' operations interleave
MaxConcOps == 3

\* the goroutines using the registry
Threads == {"g1", "g2"}

(***************************************************************************)
(* Values.  Go's nil (a nil any, a nil error) is the string "nil"; a       *)
(* context is Ctx; requests, responses and errors are strings.             *)
(***************************************************************************)
Nil == "nil"

Ctx == "ctx"

\* request values handed to Call: a nil request and an ExamContractReq{Id}
Requests(seq) == IF seq THEN {Nil, "EX-123"} ELSE {"EX-123"}

\* type Config struct { AllowOverride bool; AllowPartial bool }
Configs == [AllowOverride : BOOLEAN, AllowPartial : BOOLEAN]

\* var DEFAULT_CONFIG
DEFAULT_CONFIG == [AllowOverride |-> FALSE, AllowPartial |-> FALSE]

(***************************************************************************)
(* Contracts.  A contract is the interface's method names in the order the *)
(* interface declares them.  reflect's Type.Method(i) enumerates the       *)
(* method set sorted by name, which is the order the loops of              *)
(* RegisterContract and ValidateImpl walk.                                 *)
(***************************************************************************)
ServiceName == "Exam"

\* type ExamContract interface { FindExamById; FindAllExams }
ExamContract == <<"FindExamById", "FindAllExams">>

Contracts == {ExamContract}

\* every method name of the model in lexicographic order
LexOrder == <<"FindAllExams", "FindExamById", "Missing">>

Range(s) == {s[j] : j \in 1..Len(s)}

IsDeclared(iface, m) == m \in Range(iface)

\* ifaceType.NumMethod()
NumMethod(iface) == Len(iface)

\* the method set as reflect lists it: sorted by name
SortedMethods(iface) == SelectSeq(LexOrder, LAMBDA m : IsDeclared(iface, m))

\* faulty variant: the methods enumerated in the order of their declaration
MethodName_Declared(iface, i) == iface[i]

\* ifaceType.Method(i).Name, i counted from 1
MethodName(iface, i) == SortedMethods(iface)[i]

\* faulty variant: the key built without the separator
MakeKey_NoDot(serviceName, mName) == serviceName \o mName

\* key := serviceName + "." + mName
MakeKey(serviceName, mName) == serviceName \o "." \o mName

\* the routing keys handed to Register and Call; seq: by operations that run
\* one after another, else by operations that interleave
Keys(seq) ==
  IF seq THEN {MakeKey(ServiceName, LexOrder[j]) : j \in 1..Len(LexOrder)}
         ELSE {MakeKey(ServiceName, "FindExamById"), MakeKey(ServiceName, "Missing")}

(***************************************************************************)
(* Implementations handed to RegisterContract.  RegisterContract looks a   *)
(* method up by name only, so an implementation may lack methods of the    *)
(* contract or give them another signature.                                *)
(*   examInterface  *examInterface of example/main.go                      *)
(*   failing        FindExamById(ctx, req) (res, error) returning an error *)
(*                  FindAllExams(ctx) error, a single return value         *)
(*   onlyById       a pointer with FindExamById alone                      *)
(*   onlyAll        a pointer with FindAllExams alone                      *)
(*   byValue        a struct value, not a pointer, with both methods       *)
(*   badShape       FindExamById(ctx, a, b) (res, error), three parameters *)
(*                  FindAllExams(ctx) (res, int), no error in second place *)
(***************************************************************************)
Impls(seq) ==
  IF seq THEN {"examInterface", "failing", "onlyById", "onlyAll", "byValue",
               "badShape"}
         ELSE {"examInterface", "onlyById"}

\* implType.Kind() == reflect.Pointer
IsPointer(impl) == impl # "byValue"

\* the method set of the implementation
MethodSet(impl) ==
  CASE impl = "onlyById" -> {"FindExamById"}
    [] impl = "onlyAll" -> {"FindAllExams"}
    [] OTHER -> {"FindExamById", "FindAllExams"}

\* method.Type().NumIn(): the parameters of the bound method, receiver excluded
NumIn(impl, m) ==
  IF m = "FindExamById" THEN (IF impl = "badShape" THEN 3 ELSE 2) ELSE 1

\* the kind of the method's second return value: an error, or an int
SecondOut(impl, m) ==
  IF impl = "badShape" /\ m = "FindAllExams" THEN "int" ELSE "error"

\* the values the method returns when called with the arguments in
MethodBody(impl, m, in) ==
  CASE impl = "failing" /\ m = "FindExamById" -> <<Nil, "exam not found">>
    [] impl = "failing" /\ m = "FindAllExams" -> <<"store down">>
    [] impl = "onlyById" -> <<in[2] \o ":Stub", Nil>>
    [] impl = "onlyAll" -> <<"no exams", Nil>>
    [] impl = "badShape" /\ m = "FindAllExams" -> <<"three exams", "3">>
    [] impl = "badShape" -> <<"exam", Nil>>
    [] m = "FindExamById" -> <<in[2] \o ":Mock Exam", Nil>>
    [] OTHER -> <<"EX-001,EX-002,EX-003", Nil>>

\* implVal.MethodByName(mName): a reflect.Value, the zero Value when absent
MethodByName(impl, mName) ==
  [valid |-> mName \in MethodSet(impl), impl |-> impl, name |-> mName]

(***************************************************************************)
(* Handlers.  A HandlerFunc value is nil, a function given to Register, or *)
(* the closure makeHandler builds around a bound method.                   *)
(***************************************************************************)
NilHandler == [kind |-> "nil", impl |-> "", name |-> ""]

FuncHandler(name) == [kind |-> "func", impl |-> "", name |-> name]

\* the HandlerFunc values handed to Register:
\*   hOk      returns ("pong", nil)
\*   hErr     returns (nil, errors.New("boom"))
\*   hNested  a handler that calls back into the registry:
\*              if req == "leaf" { return "leaf", nil }
\*              res, err := r.Call(ctx, "Exam.Missing", "leaf")
\*              r.Register("Exam.Missing", hOk)
\*              return res, err
HandlerFuncs(seq) ==
  IF seq THEN {NilHandler, FuncHandler("hOk"), FuncHandler("hErr")}
         ELSE {FuncHandler("hOk"), FuncHandler("hNested")}

\* the key hNested calls and registers, and the request it calls it with
NestedKey == "Exam.Missing"

NestedReq == "leaf"

\* the handler calls back into the registry before it returns
Reenters(h, req) == h = FuncHandler("hNested") /\ req # NestedReq

\* what a function given to Register returns when it returns at once
FuncBody(name, ctx, req) ==
  CASE name = "hOk" -> [res |-> "pong", err |-> Nil]
    [] name = "hNested" -> [res |-> "leaf", err |-> Nil]
    [] OTHER -> [res |-> Nil, err |-> "boom"]

\* makeHandler(method): the closure captures the method value
makeHandler(method) == [kind |-> "bound", impl |-> method.impl, name |-> method.name]

\* faulty variant: the request appended whatever the method takes
HandlerArgs_AlwaysReq(h, ctx, req) == <<ctx, req>>

\* in := []reflect.Value{ctx}; if NumIn() == 2 { in = append(in, ValueOf(req)) }
HandlerArgs(h, ctx, req) ==
  IF NumIn(h.impl, h.name) = 2 THEN <<ctx, req>> ELSE <<ctx>>

\* method.Call(in) panics on a wrong argument count and on a zero Value
\* argument, which is what reflect.ValueOf(nil) is
CallPanics(h, in) ==
  \/ Len(in) # NumIn(h.impl, h.name)
  \/ \E j \in 1..Len(in) : in[j] = Nil

\* out[1].IsNil() panics on a value that cannot be nil, such as an int
ReturnPanics(h, out) == Len(out) = 2 /\ SecondOut(h.impl, h.name) = "int"

\* the return statements of the closure: out[0] and the error of out[1]
HandlerReturn(out) ==
  LET err == IF Len(out) = 2 /\ out[2] # Nil THEN out[2] ELSE Nil
  IN  IF Len(out) >= 1 THEN [res |-> out[1], err |-> err]
                       ELSE [res |-> Nil, err |-> err]

NoResult == [kind |-> "none", res |-> Nil, err |-> Nil, msg |-> ""]

Ok == [kind |-> "ok", res |-> Nil, err |-> Nil, msg |-> ""]

Return(res, err) == [kind |-> "return", res |-> res, err |-> err, msg |-> ""]

Panic(msg) == [kind |-> "panic", res |-> Nil, err |-> Nil, msg |-> msg]

\* the runtime's unrecoverable throw, which ends the process
Fatal(msg) == [kind |-> "fatal", res |-> Nil, err |-> Nil, msg |-> msg]

\* h(ctx, req): calling a nil func value panics
Invoke(h, ctx, req) ==
  IF h.kind = "nil" THEN Panic("invalid memory address or nil pointer dereference")
  ELSE IF h.kind = "func"
    THEN LET r == FuncBody(h.name, ctx, req) IN Return(r.res, r.err)
    ELSE LET in == HandlerArgs(h, ctx, req)
         IN  IF CallPanics(h, in)
               THEN Panic("reflect: Call with bad arguments")
             ELSE IF ReturnPanics(h, MethodBody(h.impl, h.name, in))
               THEN Panic("reflect: call of reflect.Value.IsNil on int Value")
               ELSE LET r == HandlerReturn(MethodBody(h.impl, h.name, in))
                    IN  Return(r.res, r.err)

\* the slice in the closure hands to method.Call, <<>> for another handler
InOf(h, ctx, req) ==
  IF h.kind = "bound" THEN HandlerArgs(h, ctx, req) ELSE <<>>

(***************************************************************************)
(* State.                                                                  *)
(*   config    Registry.config, fixed by NewRegistry                       *)
(*   handlers  Registry.handlers: a map, its domain the keys present       *)
(*   mu        Registry.mu: the goroutine holding the write lock and the   *)
(*             goroutines holding the read lock; Lock waits for both to be *)
(*             free, RLock for the write lock.  No method of the Registry  *)
(*             takes mu while it holds it, so the preference sync.RWMutex  *)
(*             gives a waiting writer changes no outcome                   *)
(*   th        per goroutine: the operation it runs, its arguments, its    *)
(*             locals, its position and, once it is over, its outcome;     *)
(*             stack holds the frame of the handler that called the        *)
(*             operation, if one did                                       *)
(*   nops      the operations started so far                               *)
(*   everReg   history: the keys some Register has stored                  *)
(***************************************************************************)
EmptyMap == [k \in {} |-> NilHandler]

Idle ==
  [pc |-> "idle", op |-> "none", key |-> "", h |-> NilHandler, impl |-> "",
   iface |-> <<>>, req |-> Nil, i |-> 0, in |-> <<>>, pre |-> EmptyMap,
   result |-> NoResult, stack |-> <<>>]

\* NewRegistry(config): an empty map, the lock free
Init ==
  /\ config \in Configs
  /\ handlers = EmptyMap
  /\ mu = [w |-> "none", r |-> {}]
  /\ th = [t \in Threads |-> Idle]
  /\ nops = 0
  /\ everReg = {}

\* _, exists := r.handlers[key]
Exists(m, key) == key \in DOMAIN m

\* h := r.handlers[key]: the zero value, a nil HandlerFunc, for an absent key
Lookup(m, key) == IF key \in DOMAIN m THEN m[key] ELSE NilHandler

\* faulty variant: the map left with the stored key alone
Store_Alone(m, key, h) == [k \in {key} |-> h]

\* faulty variant: a present key keeps its handler
Store_IfAbsent(m, key, h) ==
  [k \in DOMAIN m \cup {key} |-> IF k \in DOMAIN m THEN m[k] ELSE h]

\* r.handlers[key] = h
Store(m, key, h) ==
  [k \in DOMAIN m \cup {key} |-> IF k = key THEN h ELSE m[k]]

\* faulty variant: the write lock kept
Unlock_Kept(m) == m

\* r.mu.Unlock()
Unlock(m) == [m EXCEPT !.w = "none"]

\* faulty variant: the read lock kept
RUnlock_Kept(m, t) == m

\* r.mu.RUnlock()
RUnlock(m, t) == [m EXCEPT !.r = m.r \ {t}]

\* the runtime has thrown: the process is over
Crashed == \E t \in Threads : th[t].result.kind = "fatal"

\* the map as an operation finds it, kept for the properties when the
\* operations run one after another (beside other operations the map an
\* operation starts on is not the map it works on)
Before(seq) == IF seq THEN handlers ELSE EmptyMap

\* a goroutine may call into the registry; seq: only while no other call runs
CanStart(t, seq) ==
  /\ ~Crashed
  /\ nops < (IF seq THEN MaxOps ELSE MaxConcOps)
  /\ th[t].pc = "idle"
  /\ seq => \A u \in Threads : th[u].pc = "idle"

Running(t, pc) == ~Crashed /\ th[t].pc = pc

\* the Call a handler makes, the handler's frame kept on the stack
NestedCall(frame) ==
  [Idle EXCEPT !.pc = "call_rlock", !.op = "Call", !.key = NestedKey,
               !.req = NestedReq, !.pre = frame.pre,
               !.stack = <<[frame EXCEPT !.pc = "after_call"]>>]

\* the Register a handler makes once its Call has returned result
NestedRegister(frame, result) ==
  [Idle EXCEPT !.pc = "reg_lock", !.op = "Register", !.key = NestedKey,
               !.h = FuncHandler("hOk"), !.pre = frame.pre,
               !.stack = <<[frame EXCEPT !.pc = "after_register",
                                         !.result = result]>>]

\* a registry method returns: to the goroutine's code, or into the handler
\* that called it, which goes on to its Register or returns what its Call
\* returned (the handler's own caller is the goroutine: its nested Call
\* passes the request on which it returns at once)
Done(rec, result) ==
  IF rec.stack = <<>> THEN [rec EXCEPT !.pc = "done", !.result = result]
  ELSE IF rec.stack[1].pc = "after_call"
    THEN NestedRegister(rec.stack[1], result)
    ELSE [rec.stack[1] EXCEPT !.pc = "done"]

(***************************************************************************)
(* Register(key, h)                                                        *)
(***************************************************************************)
StartRegister(t, seq) ==
  /\ CanStart(t, seq)
  /\ \E key \in Keys(seq), h \in HandlerFuncs(seq) :
       th' = [th EXCEPT ![t] = [Idle EXCEPT !.pc = "reg_lock", !.op = "Register",
                                            !.key = key, !.h = h, !.pre = Before(seq)]]
  /\ nops' = nops + 1
  /\ UNCHANGED <<config, handlers, mu, everReg>>

\* r.mu.Lock()
RegLock(t) ==
  /\ Running(t, "reg_lock")
  /\ mu.w = "none" /\ mu.r = {}
  /\ mu' = [mu EXCEPT !.w = t]
  /\ th' = [th EXCEPT ![t].pc = "reg_store"]
  /\ UNCHANGED <<config, handlers, nops, everReg>>

\* where Register returns to: its caller, or the loop of RegisterContract
AfterRegister(rec) ==
  IF rec.op = "Register" THEN Done(rec, Ok)
                         ELSE [rec EXCEPT !.pc = "rc_loop", !.i = rec.i + 1]

\* r.handlers[key] = h; r.mu.Unlock()
RegStore(t) ==
  /\ Running(t, "reg_store")
  /\ handlers' = Store(handlers, th[t].key, th[t].h)
  /\ everReg' = everReg \cup {th[t].key}
  /\ mu' = Unlock(mu)
  /\ th' = [th EXCEPT ![t] = AfterRegister(th[t])]
  /\ UNCHANGED <<config, nops>>

(***************************************************************************)
(* RegisterContract(serviceName, iface, impl)                              *)
(***************************************************************************)
\* faulty variant: the loop entered without the pointer check
RcEnter_NoCheck(rec) == [rec EXCEPT !.pc = "rc_loop", !.i = 1]

\* if implType.Kind() != reflect.Pointer { panic }, else the loop from its start
RcEnter(rec) ==
  IF IsPointer(rec.impl)
    THEN [rec EXCEPT !.pc = "rc_loop", !.i = 1]
    ELSE Done(rec, Panic("irpc: impl must be a pointer to struct"))

StartRegisterContract(t, seq) ==
  /\ CanStart(t, seq)
  /\ \E iface \in Contracts, impl \in Impls(seq) :
       th' = [th EXCEPT ![t] =
                RcEnter([Idle EXCEPT !.op = "RegisterContract", !.iface = iface,
                                     !.impl = impl, !.pre = Before(seq)])]
  /\ nops' = nops + 1
  /\ UNCHANGED <<config, handlers, mu, everReg>>

\* The duplicate check reads r.handlers without r.mu.  While another
\* goroutine is between Lock and Unlock of Register the read races with the
\* map write: it sees the map before or after the write, or the runtime
\* throws "concurrent map read and map write".
RacyExists(t, key) ==
  {IF Exists(handlers, key) THEN "present" ELSE "absent"}
    \cup UNION {{"fatal"} \cup (IF th[u].key = key THEN {"present"} ELSE {}) :
                  u \in {v \in Threads \ {t} : th[v].pc = "reg_store"}}

\* faulty variants: a missing method never, or always, skipped
SkipMissing_Never(cfg) == FALSE

SkipMissing_Always(cfg) == TRUE

\* if r.config.AllowPartial { continue }
SkipMissing(cfg) == cfg.AllowPartial

\* faulty variant: a present key fatal whatever AllowOverride says
DuplicateFatal_Always(cfg, exists) == exists = "present"

\* if _, exists := r.handlers[key]; exists && !r.config.AllowOverride { panic }
DuplicateFatal(cfg, exists) == exists = "present" /\ ~cfg.AllowOverride

\* one turn of the loop over the contract's methods, the duplicate check
\* having read exists
RcIterate(rec, cfg, exists) ==
  IF rec.i > NumMethod(rec.iface) THEN Done(rec, Ok)
  ELSE
    LET mName == MethodName(rec.iface, rec.i)
        implMethod == MethodByName(rec.impl, mName)
        key == MakeKey(ServiceName, mName)
    IN  IF ~implMethod.valid
          THEN IF SkipMissing(cfg)
                 THEN [rec EXCEPT !.i = rec.i + 1]
                 ELSE Done(rec, Panic("irpc: missing method: " \o ServiceName
                                        \o "." \o mName))
        ELSE IF exists = "fatal"
          THEN Done(rec, Fatal("concurrent map read and map write"))
        ELSE IF DuplicateFatal(cfg, exists)
          THEN Done(rec, Panic("irpc: duplicate method key '" \o key
                                 \o "' in RegisterContract"))
        ELSE [rec EXCEPT !.pc = "reg_lock", !.key = key,
                         !.h = makeHandler(implMethod)]

\* the key the loop is about to check
RcKey(rec) ==
  IF rec.i > NumMethod(rec.iface) THEN ""
  ELSE MakeKey(ServiceName, MethodName(rec.iface, rec.i))

RcLoop(t) ==
  /\ Running(t, "rc_loop")
  /\ \E exists \in RacyExists(t, RcKey(th[t])) :
       th' = [th EXCEPT ![t] = RcIterate(th[t], config, exists)]
  /\ UNCHANGED <<config, handlers, mu, nops, everReg>>

(***************************************************************************)
(* Call(ctx, key, req)                                                     *)
(***************************************************************************)
StartCall(t, seq) ==
  /\ CanStart(t, seq)
  /\ \E key \in Keys(seq), req \in Requests(seq) :
       th' = [th EXCEPT ![t] = [Idle EXCEPT !.pc = "call_rlock", !.op = "Call",
                                            !.key = key, !.req = req,
                                            !.pre = Before(seq)]]
  /\ nops' = nops + 1
  /\ UNCHANGED <<config, handlers, mu, everReg>>

\* r.mu.RLock()
CallRLock(t) ==
  /\ Running(t, "call_rlock")
  /\ mu.w = "none"
  /\ mu' = [mu EXCEPT !.r = mu.r \cup {t}]
  /\ th' = [th EXCEPT ![t].pc = "call_lookup"]
  /\ UNCHANGED <<config, handlers, nops, everReg>>

\* faulty variant: the handler called without the nil check
CallDispatch_NoNilCheck(rec, h) == [rec EXCEPT !.pc = "in_handler", !.h = h]

\* if h == nil { return nil, fmt.Errorf("irpc: handler not found: %s", key) }
CallDispatch(rec, h) ==
  IF h = NilHandler
    THEN Done(rec, Return(Nil, "irpc: handler not found: " \o rec.key))
    ELSE [rec EXCEPT !.pc = "in_handler", !.h = h]

\* h := r.handlers[key]; r.mu.RUnlock(); the nil check
CallLookup(t) ==
  /\ Running(t, "call_lookup")
  /\ mu' = RUnlock(mu, t)
  /\ th' = [th EXCEPT ![t] = CallDispatch(th[t], Lookup(handlers, th[t].key))]
  /\ UNCHANGED <<config, handlers, nops, everReg>>

\* return h(ctx, req): the handler runs and Call returns what it returns
CallHandler(t) ==
  /\ Running(t, "in_handler")
  /\ th' = [th EXCEPT ![t] =
              IF Reenters(th[t].h, th[t].req)
                THEN NestedCall(th[t])
                ELSE Done([th[t] EXCEPT !.in = InOf(th[t].h, Ctx, th[t].req)],
                          Invoke(th[t].h, Ctx, th[t].req))]
  /\ UNCHANGED <<config, handlers, mu, nops, everReg>>

(***************************************************************************)
(* ValidateImpl(serviceName, iface)                                        *)
(***************************************************************************)
\* for i := 0; i < ifaceType.NumMethod(); i++
ViEnter(rec) ==
  IF rec.i > NumMethod(rec.iface)
    THEN Done(rec, Ok)
    ELSE [rec EXCEPT !.pc = "vi_rlock",
                     !.key = MakeKey(ServiceName, MethodName(rec.iface, rec.i))]

StartValidateImpl(t, seq) ==
  /\ CanStart(t, seq)
  /\ \E iface \in Contracts :
       th' = [th EXCEPT ![t] =
                ViEnter([Idle EXCEPT !.op = "ValidateImpl", !.iface = iface,
                                     !.i = 1, !.pre = Before(seq)])]
  /\ nops' = nops + 1
  /\ UNCHANGED <<config, handlers, mu, everReg>>

\* r.mu.RLock()
ViRLock(t) ==
  /\ Running(t, "vi_rlock")
  /\ mu.w = "none"
  /\ mu' = [mu EXCEPT !.r = mu.r \cup {t}]
  /\ th' = [th EXCEPT ![t].pc = "vi_lookup"]
  /\ UNCHANGED <<config, handlers, nops, everReg>>

\* faulty variant: an absent key passed over
ViCheck_Continue(rec, exists) == ViEnter([rec EXCEPT !.i = rec.i + 1])

\* if !exists { panic }, else the next method
ViCheck(rec, exists) ==
  IF ~exists
    THEN Done(rec, Panic("irpc: missing registered handler for " \o rec.key))
    ELSE ViEnter([rec EXCEPT !.i = rec.i + 1])

\* _, exists := r.handlers[key]; r.mu.RUnlock(); the check
ViLookup(t) ==
  /\ Running(t, "vi_lookup")
  /\ mu' = RUnlock(mu, t)
  /\ th' = [th EXCEPT ![t] = ViCheck(th[t], Exists(handlers, th[t].key))]
  /\ UNCHANGED <<config, handlers, nops, everReg>>

(***************************************************************************)
(* The operation is over: the goroutine is back in its caller (a panic is  *)
(* one the caller recovers; the runtime's throw ends the process).         *)
(***************************************************************************)
Finish(t) ==
  /\ Running(t, "done")
  /\ th' = [th EXCEPT ![t] = Idle]
  /\ UNCHANGED <<config, handlers, mu, nops, everReg>>

Step(t) ==
  \/ RegLock(t)
  \/ RegStore(t)
  \/ RcLoop(t)
  \/ CallRLock(t)
  \/ CallLookup(t)
  \/ CallHandler(t)
  \/ ViRLock(t)
  \/ ViLookup(t)
  \/ Finish(t)

Start(t, seq) ==
  \/ StartRegister(t, seq)
  \/ StartRegisterContract(t, seq)
  \/ StartCall(t, seq)
  \/ StartValidateImpl(t, seq)

\* the operations run one after another
Next == \E t \in Threads : Start(t, TRUE) \/ Step(t)

Spec == Init /\ [][Next]_vars

\* the goroutines' operations interleave
ConcNext == \E t \in Threads : Start(t, FALSE) \/ Step(t)

ConcSpec == Init /\ [][ConcNext]_vars

\* the scheduler runs every goroutine that can take a step
FairSpec == ConcSpec /\ \A t \in Threads : WF_vars(Step(t))

(***************************************************************************)
(* The properties.  Under Spec the operations run one after another, so in *)
(* a state where a goroutine is at "done" th[t].pre is the map before its  *)
(* operation and handlers the map after it.                                *)
(***************************************************************************)
Returned(t, op) == th[t].pc = "done" /\ th[t].op = op

\* S + "." + m
KeyOf(m) == ServiceName \o "." \o m

KeysOf(iface) == {KeyOf(iface[j]) : j \in 1..Len(iface)}

\* the handler bound to impl's method named m
Bound(impl, m) == [kind |-> "bound", impl |-> impl, name |-> m]

\* impl's method m has the shape of an operation: the context and at most a
\* request go in, an error comes out last
OperationShape(impl, m) == NumIn(impl, m) \in {1, 2} /\ SecondOut(impl, m) = "error"

HasEvery(iface, impl) == \A j \in 1..Len(iface) : iface[j] \in MethodSet(impl)

\* the map holding, for every operation of the contract, impl's method
Registered(iface, impl) ==
  [k \in KeysOf(iface) |-> Bound(impl, CHOOSE m \in Range(iface) : KeyOf(m) = k)]

HandlerNotFound(key) == Return(Nil, "irpc: handler not found: " \o key)

MissingMethod(m) == Panic("irpc: missing method: " \o ServiceName \o "." \o m)

DuplicateKey(key) ==
  Panic("irpc: duplicate method key '" \o key \o "' in RegisterContract")

MissingHandler(key) == Panic("irpc: missing registered handler for " \o key)

\* the Call of goroutine t ran impl's method m on the context (and the
\* request) and returned what the method returned
InvokedMethod(t, impl, m) ==
  LET out == MethodBody(impl, m, th[t].in)
  IN  /\ th[t].h = Bound(impl, m)
      /\ th[t].result.kind = "return"
      /\ th[t].in[1] = Ctx
      /\ th[t].result.res = out[1]
      /\ Len(out) = 2 => th[t].result.err = out[2]

\* the Call of goroutine t ran against the map that RegisterContract leaves
\* on a fresh registry for some implementation with every method
AfterFreshRegistration(t, iface, impl) ==
  /\ Returned(t, "Call")
  /\ config = DEFAULT_CONFIG
  /\ HasEvery(iface, impl)
  /\ th[t].pre = Registered(iface, impl)

Same(a, b, k) ==
  /\ k \in DOMAIN a <=> k \in DOMAIN b
  /\ k \in DOMAIN a => b[k] = a[k]

\* C2 as claimed: with AllowOverride=false a registration, by Register or by
\* RegisterContract, of a key already present is fatal and leaves the handler
\* of the first registration under that key.
C2_AsClaimed ==
  \A t \in Threads :
    (th[t].pc = "done" /\ ~config.AllowOverride)
    => /\ (th[t].op = "Register" /\ th[t].key \in DOMAIN th[t].pre)
            => th[t].result.kind = "panic"
       /\ th[t].op \in {"Register", "RegisterContract"}
            => \A k \in DOMAIN th[t].pre : handlers[k] = th[t].pre[k]

\* the turns of RegisterContract's loop that goroutine t has completed
Processed(t) == {j \in 1..Len(th[t].iface) : j < th[t].i}

\* the j-th method of goroutine t's contract as the loop enumerates it
Enumerated(t, j) == SortedMethods(th[t].iface)[j]

\* C3: with AllowOverride=true a second registration of a key, by Register or
\* by RegisterContract, raises no fatal error and leaves its own handler under
\* the key; a Call started afterwards resolves the handler the map holds, the
\* second one, and returns what that handler returns.
C3_Override ==
  \A t \in Threads :
    (th[t].pc = "done" /\ config.AllowOverride)
    => /\ (th[t].op = "Register" /\ th[t].key \in DOMAIN th[t].pre)
            => th[t].result = Ok /\ handlers[th[t].key] = th[t].h
       /\ th[t].op = "RegisterContract"
            => /\ \A k \in KeysOf(th[t].iface) : th[t].result # DuplicateKey(k)
               /\ \A j \in Processed(t) :
                    Enumerated(t, j) \in MethodSet(th[t].impl)
                    => handlers[KeyOf(Enumerated(t, j))]
                         = Bound(th[t].impl, Enumerated(t, j))
       /\ (th[t].op = "Call" /\ th[t].key \in DOMAIN th[t].pre)
            => /\ th[t].h = th[t].pre[th[t].key]
               /\ th[t].h # NilHandler
                    => th[t].result = Invoke(th[t].h, Ctx, th[t].req)

\* RegisterContract has replaced a handler that Register had stored
C3_Witness ==
  \E t \in Threads :
    /\ Returned(t, "RegisterContract") /\ config.AllowOverride
    /\ th[t].result = Ok
    /\ "Exam.FindExamById" \in DOMAIN th[t].pre
    /\ th[t].pre["Exam.FindExamById"] = FuncHandler("hOk")
    /\ handlers["Exam.FindExamById"] = Bound(th[t].impl, "FindExamById")

\* C4: with AllowPartial=true RegisterContract raises no MissingMethod error;
\* the key of an operation without a method is left as it was; an operation
\* with a method is registered as in strict mode: its key holds the bound
\* method unless the call ended in DuplicateKey (or the pointer check) first.
C4_Partial ==
  \A t \in Threads :
    (Returned(t, "RegisterContract") /\ config.AllowPartial)
    => /\ \A m \in Range(th[t].iface) :
            m \notin MethodSet(th[t].impl)
            => /\ th[t].result # MissingMethod(m)
               /\ Same(th[t].pre, handlers, KeyOf(m))
       /\ \A j \in Processed(t) :
            Enumerated(t, j) \in MethodSet(th[t].impl)
            => handlers[KeyOf(Enumerated(t, j))]
                 = Bound(th[t].impl, Enumerated(t, j))
       /\ ( /\ IsPointer(th[t].impl)
            /\ \/ config.AllowOverride
               \/ \A m \in Range(th[t].iface) \cap MethodSet(th[t].impl) :
                    KeyOf(m) \notin DOMAIN th[t].pre )
          => th[t].result = Ok /\ Processed(t) = 1..Len(th[t].iface)

\* a partial implementation: FindExamById registered, FindAllExams absent
C4_Witness ==
  \E t \in Threads :
    /\ Returned(t, "RegisterContract") /\ config.AllowPartial
    /\ th[t].impl = "onlyById" /\ th[t].result = Ok
    /\ "Exam.FindAllExams" \notin DOMAIN handlers
    /\ "Exam.FindExamById" \in DOMAIN handlers

\* the place in the enumeration of the first operation impl has no method for
FirstLacking(t) ==
  CHOOSE j \in 1..Len(th[t].iface) :
    /\ Enumerated(t, j) \notin MethodSet(th[t].impl)
    /\ \A k \in 1..(j - 1) : Enumerated(t, k) \in MethodSet(th[t].impl)

\* the keys of the operations from place j of the enumeration on are as before
UntouchedFrom(t, j) ==
  \A k \in j..Len(th[t].iface) : Same(th[t].pre, handlers, KeyOf(Enumerated(t, k)))

\* C5 as claimed: with AllowPartial=false RegisterContract with an
\* implementation lacking a method for operation m ends in MissingMethod
\* naming S and m, and stores nothing under the key of m or of a later one.
C5_AsClaimed ==
  \A t \in Threads :
    ( /\ Returned(t, "RegisterContract") /\ ~config.AllowPartial
      /\ ~HasEvery(th[t].iface, th[t].impl) )
    => /\ th[t].result = MissingMethod(Enumerated(t, FirstLacking(t)))
       /\ UntouchedFrom(t, FirstLacking(t))

\* C5 (amended): the call ends in a fatal error and stores nothing under the
\* key of m or of a later operation; the error is MissingMethod naming S and m
\* when the loop reaches m, that is when impl is a pointer and no earlier
\* operation's key is present under AllowOverride=false (then the earlier
\* fatal error, DuplicateKey, ends the call).
C5_StrictMissing ==
  \A t \in Threads :
    ( /\ Returned(t, "RegisterContract") /\ ~config.AllowPartial
      /\ ~HasEvery(th[t].iface, th[t].impl) )
    => /\ th[t].result.kind = "panic"
       /\ UntouchedFrom(t, FirstLacking(t))
       /\ ( /\ IsPointer(th[t].impl)
            /\ \/ config.AllowOverride
               \/ \A k \in 1..(FirstLacking(t) - 1) :
                    KeyOf(Enumerated(t, k)) \notin DOMAIN th[t].pre )
          => th[t].result = MissingMethod(Enumerated(t, FirstLacking(t)))
       /\ th[t].result # MissingMethod(Enumerated(t, FirstLacking(t)))
          => \E k \in 1..(FirstLacking(t) - 1) :
               th[t].result = DuplicateKey(KeyOf(Enumerated(t, k)))

\* FindAllExams, enumerated first, is lacking: FindExamById is not registered
C5_Witness ==
  \E t \in Threads :
    /\ Returned(t, "RegisterContract") /\ ~config.AllowPartial
    /\ th[t].impl = "onlyById"
    /\ th[t].result = MissingMethod("FindAllExams")
    /\ "Exam.FindExamById" \notin DOMAIN handlers

\* C6, in every state: a Call on a key that no Register has stored returns
\* a nil response and the HandlerNotFound error naming the key
C6_NotFound ==
  \A t \in Threads :
    (Returned(t, "Call") /\ th[t].key \notin everReg)
    => th[t].result = HandlerNotFound(th[t].key)

\* C6: resolution totality.  While other goroutines register and run
\* handlers, a Call on a key never registered returns HandlerNotFound as an
\* ordinary error, no step of a Call changes the map, and the Call, once
\* started, returns (unless the runtime has ended the process for the map
\* race of a RegisterContract running beside it).
C6_ResolutionTotality ==
  /\ []C6_NotFound
  /\ [][\A t \in Threads :
          (th[t].op = "Call" /\ th'[t] # th[t]) => handlers' = handlers]_vars
  /\ \A t \in Threads :
       (th[t].pc = "call_rlock" /\ th[t].key \notin everReg)
         ~> (th[t].pc = "done" \/ Crashed)

\* a Call has returned HandlerNotFound while another goroutine holds the
\* write lock or runs a handler
C6_Witness ==
  \E t \in Threads, u \in Threads :
    /\ Returned(t, "Call") /\ th[t].key \notin everReg
    /\ th[t].result = HandlerNotFound(th[t].key)
    /\ th[u].pc \in {"reg_store", "in_handler"}

\* what the handler goroutine t has run returned: the values of a function
\* given to Register, or of the method under a bound handler, whose last
\* return value is its error and whose response, if it has one, comes first
HandlerValues(t) ==
  IF th[t].h.kind = "func" THEN FuncBody(th[t].h.name, Ctx, th[t].req)
  ELSE LET out == MethodBody(th[t].h.impl, th[t].h.name, th[t].in)
       IN  [res |-> IF Len(out) = 2 THEN out[1] ELSE Nil, err |-> out[Len(out)]]

\* C7 as claimed: when the handler, or the method under it, returns a non-nil
\* error, Call returns that error and a nil response; when it returns a
\* non-nil response and a nil error, Call returns that response and nil.
C7_AsClaimed ==
  \A t \in Threads :
    (Returned(t, "Call") /\ th[t].result.kind = "return" /\ th[t].h # NilHandler)
    => LET v == HandlerValues(t)
       IN  /\ v.err # Nil => th[t].result = Return(Nil, v.err)
           /\ (v.err = Nil /\ v.res # Nil) => th[t].result = Return(v.res, Nil)

\* C8: a bound handler whose method takes only a context hands the method
\* the context alone and, the method returning an error last as operations
\* do, returns the method's result whatever the request, a nil one included;
\* one whose method takes a request hands it the context and then the call's
\* request.
C8_ZeroArgument ==
  \A t \in Threads :
    (Returned(t, "Call") /\ th[t].h.kind = "bound")
    => /\ NumIn(th[t].h.impl, th[t].h.name) = 1
            => /\ th[t].in = <<Ctx>>
               /\ OperationShape(th[t].h.impl, th[t].h.name)
                    => /\ th[t].result.kind = "return"
                       /\ th[t].result.res =
                            MethodBody(th[t].h.impl, th[t].h.name, <<Ctx>>)[1]
       /\ NumIn(th[t].h.impl, th[t].h.name) = 2
            => th[t].in = <<Ctx, th[t].req>>

\* FindAllExams(ctx) called with a nil request
C8_Witness ==
  \E t \in Threads :
    /\ Returned(t, "Call") /\ th[t].req = Nil
    /\ th[t].h = Bound("examInterface", "FindAllExams")
    /\ th[t].result = Return("EX-001,EX-002,EX-003", Nil)

\* the first operation, in the order seq lists them, whose key map m lacks
FirstAbsent(seq, m) ==
  seq[CHOOSE j \in 1..Len(seq) :
        /\ KeyOf(seq[j]) \notin DOMAIN m
        /\ \A k \in 1..(j - 1) : KeyOf(seq[k]) \in DOMAIN m]

\* ValidateImpl of goroutine t: success exactly when every key is present,
\* else MissingHandler for the first absent key in the order seq; the map is
\* left as it was
Validated(t, seq) ==
  /\ handlers = th[t].pre
  /\ th[t].result = Ok <=> KeysOf(th[t].iface) \subseteq DOMAIN th[t].pre
  /\ ~(KeysOf(th[t].iface) \subseteq DOMAIN th[t].pre)
       => th[t].result = MissingHandler(KeyOf(FirstAbsent(seq, th[t].pre)))

\* C9 as claimed: ValidateImpl succeeds exactly when every key of the
\* contract is present, else it fails with MissingHandler naming the first
\* absent key in the order the contract declares its operations; the map is
\* unchanged.
C9_AsClaimed ==
  \A t \in Threads : Returned(t, "ValidateImpl") => Validated(t, th[t].iface)

\* C9 (amended): ValidateImpl succeeds exactly when every key of the
\* contract is present, else it fails with MissingHandler naming the first
\* absent key in the order reflection enumerates the contract's methods,
\* sorted by name; the map is unchanged.
C9_ValidateImpl ==
  \A t \in Threads :
    Returned(t, "ValidateImpl") => Validated(t, SortedMethods(th[t].iface))

\* both keys absent: FindAllExams is named, though FindExamById is declared first
C9_Witness ==
  \E t \in Threads :
    /\ Returned(t, "ValidateImpl")
    /\ th[t].iface = ExamContract
    /\ KeysOf(ExamContract) \cap DOMAIN th[t].pre = {}
    /\ th[t].result = MissingHandler("Exam.FindAllExams")

RcStored(t, key) ==
  /\ Returned(t, "RegisterContract")
  /\ \E j \in Processed(t) :
       /\ Enumerated(t, j) \in MethodSet(th[t].impl)
       /\ KeyOf(Enumerated(t, j)) = key

\* C11 as claimed: with AllowOverride=false no interleaving lets two
\* RegisterContract calls both pass the duplicate check of a key and both
\* store a handler under it: of two calls that have returned at most one has
\* stored under the key.
C11_AsClaimed ==
  ~config.AllowOverride
  => \A t \in Threads, u \in Threads : \A key \in Keys(FALSE) :
       t # u => ~(RcStored(t, key) /\ RcStored(u, key))

\* goroutine t is inside a registry method, or inside a handler one runs
Busy(t) == th[t].pc \notin {"idle", "done"}

\* some goroutine inside the registry can take its next step
CanStep == \E t \in Threads : Busy(t) /\ ENABLED Step(t)

\* C12: a handler may call Call, on its own key too, and Register on the
\* registry that runs it.  While the other goroutine registers and calls, no
\* reachable state is a deadlock (a goroutine inside the registry can step),
\* and under fair scheduling every operation, a handler's nested ones
\* included, completes: the goroutine comes back from the Call it started
\* (unless the runtime has ended the process for the map race of a
\* RegisterContract running beside it).
C12_Reentrancy ==
  /\ []((~Crashed /\ \E t \in Threads : Busy(t)) => CanStep)
  /\ \A t \in Threads :
       Busy(t) ~> (th[t].pc = "done" \/ Crashed)
  /\ \A t \in Threads :
       (th[t].stack # <<>>) ~> (th[t].stack = <<>> \/ Crashed)

\* hNested, called on its own key, has had "leaf" from its Call on that key
\* and waits with its Register for the lock the other goroutine's lookup holds
C12_Witness ==
  \E t \in Threads, u \in Threads :
    /\ th[t].pc = "reg_lock" /\ th[t].stack # <<>>
    /\ th[t].stack[1].key = NestedKey
    /\ th[t].stack[1].result = Return("leaf", Nil)
    /\ th[u].pc = "call_lookup" /\ u \in mu.r

\* goroutine t holds r.mu, for reading or for writing
HoldsLock(t) == mu.w = t \/ t \in mu.r

\* C13: a goroutine that runs a handler body holds r.mu neither for reading
\* nor for writing: a goroutine holds the lock only between the Lock and the
\* Unlock of Register and between the RLock and the RUnlock of a lookup, so a
\* goroutine waiting for the lock beside a running handler finds it free.
C13_HandlerOutsideLock ==
  \A t \in Threads :
    /\ th[t].pc = "in_handler" => ~HoldsLock(t)
    /\ mu.w = t => th[t].pc = "reg_store"
    /\ t \in mu.r => th[t].pc \in {"call_lookup", "vi_lookup"}
    /\ th[t].pc = "in_handler"
         => \A u \in Threads \ {t} :
              th[u].pc \in {"reg_lock", "call_rlock", "vi_rlock"}
              => mu.w = "none" /\ mu.r = {}

\* a handler is running while the other goroutine's Register holds the lock
\* for its store
C13_Witness ==
  \E t \in Threads, u \in Threads :
    /\ th[t].pc = "in_handler" /\ th[t].stack = <<>>
    /\ th[u].pc = "reg_store" /\ mu.w = u

\* C14 as claimed: the handler a Call on key k invokes is one the map held
\* under k between the Call's start and its lookup, and a Call started after
\* a registration of k has returned does not return HandlerNotFound for k.
\* With the operations one after another the map at the lookup is the map at
\* the Call's start, and k is in it exactly when a registration of k has
\* returned.
C14_AsClaimed ==
  \A t \in Threads :
    Returned(t, "Call")
    => /\ th[t].h # NilHandler
            => Exists(th[t].pre, th[t].key) /\ th[t].h = th[t].pre[th[t].key]
       /\ Exists(th[t].pre, th[t].key)
            => th[t].result # HandlerNotFound(th[t].key)

\* the RegisterContract of goroutine t has ended in the DuplicateKey or the
\* MissingMethod error of some operation of its contract
Aborted(t) ==
  /\ Returned(t, "RegisterContract")
  /\ \E m \in Range(th[t].iface) :
       th[t].result \in {DuplicateKey(KeyOf(m)), MissingMethod(m)}

\* the operation the error of goroutine t's RegisterContract names
AbortedAt(t) ==
  CHOOSE m \in Range(th[t].iface) :
    th[t].result \in {DuplicateKey(KeyOf(m)), MissingMethod(m)}

\* the place of method m in a sequence of methods
IndexIn(methods, m) == CHOOSE j \in 1..Len(methods) : methods[j] = m

\* with the operations of goroutine t's contract taken in the given order:
\* those before the operation the abort names are registered to the
\* implementation if they have a method and are as they were if not, and
\* that operation and the ones after it are as they were
PrefixRegistered(t, order) ==
  LET p == IndexIn(order, AbortedAt(t))
  IN  \A j \in 1..Len(order) :
        LET m == order[j]
        IN  /\ (j < p /\ m \in MethodSet(th[t].impl))
                 => /\ KeyOf(m) \in DOMAIN handlers
                    /\ handlers[KeyOf(m)] = Bound(th[t].impl, m)
            /\ (j >= p \/ m \notin MethodSet(th[t].impl))
                 => Same(th[t].pre, handlers, KeyOf(m))

\* C15 as claimed: when RegisterContract aborts at operation m, the
\* operations declared before m that have a method are registered to the
\* implementation, and m and the operations declared after it are left as
\* they were.
C15_AsClaimed ==
  \A t \in Threads : Aborted(t) => PrefixRegistered(t, th[t].iface)

\* C15 (amended): when RegisterContract aborts at operation m, the
\* operations that come before m in the order of their names, the order the
\* loop takes them in, are registered to the implementation if they have a
\* method and left as they were if not; m and the operations after it in that
\* order are left as they were.
C15_PrefixEffect ==
  \A t \in Threads :
    Aborted(t) => PrefixRegistered(t, SortedMethods(th[t].iface))

\* FindAllExams is registered, then FindExamById, declared first, is missing
C15_Witness ==
  \E t \in Threads :
    /\ Aborted(t)
    /\ th[t].result = MissingMethod("FindExamById")
    /\ "Exam.FindAllExams" \notin DOMAIN th[t].pre
    /\ handlers["Exam.FindAllExams"] = Bound(th[t].impl, "FindAllExams")

\* C16 as claimed: a method's return values are read by position: of two
\* values the first is the response and the second the error that Call
\* returns, and a single value is the error, returned with a nil response.
C16_AsClaimed ==
  \A t \in Threads :
    ( /\ Returned(t, "Call") /\ th[t].h.kind = "bound"
      /\ th[t].result.kind = "return" )
    => LET out == MethodBody(th[t].h.impl, th[t].h.name, th[t].in)
       IN  /\ Len(out) = 2 => th[t].result = Return(out[1], out[2])
           /\ Len(out) = 1 => th[t].result = Return(Nil, out[1])

\* C17 as claimed: RegisterContract with a pointer implementation that has,
\* under an operation's name, a method of a shape the binder cannot dispatch
\* ends in a fatal error and stores no handler for that method, and no Call
\* ends in a panic of a method of such a shape.
C17_AsClaimed ==
  \A t \in Threads :
    /\ (Returned(t, "RegisterContract") /\ IsPointer(th[t].impl))
         => \A m \in Range(th[t].iface) :
              (m \in MethodSet(th[t].impl) /\ ~OperationShape(th[t].impl, m))
              => /\ th[t].result.kind = "panic"
                 /\ Same(th[t].pre, handlers, KeyOf(m))
    /\ ( /\ Returned(t, "Call") /\ th[t].h.kind = "bound"
         /\ ~OperationShape(th[t].h.impl, th[t].h.name) )
         => th[t].result.kind # "panic"

\* C18: RegisterContract with an implementation that is not a pointer ends
\* in the fatal error of the pointer check before its loop takes any method,
\* and the map after the call is the map before it, whatever the
\* configuration and the contract.
C18_NonPointer ==
  \A t \in Threads :
    (Returned(t, "RegisterContract") /\ ~IsPointer(th[t].impl))
    => /\ th[t].result = Panic("irpc: impl must be a pointer to struct")
       /\ th[t].i = 0
       /\ handlers = th[t].pre

\* a struct value with both methods is refused while a key of the contract
\* is still free
C18_Witness ==
  \E t \in Threads :
    /\ Returned(t, "RegisterContract") /\ th[t].impl = "byValue"
    /\ config.AllowOverride /\ config.AllowPartial
    /\ th[t].pre # EmptyMap
    /\ "Exam.FindAllExams" \notin DOMAIN handlers

\* C19: the set of registered keys only grows: every key a Register has ever
\* stored is present, and the keys of a contract that ValidateImpl has found
\* complete are present, while the other goroutine registers.
C19_KeysOnlyGrow ==
  /\ everReg = DOMAIN handlers
  /\ \A t \in Threads :
       (Returned(t, "ValidateImpl") /\ th[t].result = Ok)
       => KeysOf(th[t].iface) \subseteq DOMAIN handlers

\* ValidateImpl has succeeded and the other goroutine's Register is at its
\* store
C19_Witness ==
  \E t \in Threads, u \in Threads :
    /\ Returned(t, "ValidateImpl") /\ th[t].result = Ok
    /\ th[u].pc = "reg_store" /\ th[u].op = "Register"

\* what a Call on key would return, ValidateImpl's check of key would do and
\* a strict RegisterContract's duplicate check of key would decide, on the
\* map as it is
CallReportsAbsent(key) ==
  CallDispatch([Idle EXCEPT !.op = "Call", !.key = key],
               Lookup(handlers, key)).result = HandlerNotFound(key)

ValidateReportsAbsent(key) ==
  ViCheck([Idle EXCEPT !.op = "ValidateImpl", !.key = key, !.i = 1,
                       !.iface = ExamContract],
          Exists(handlers, key)).result = MissingHandler(key)

StrictCheckPasses(key) ==
  ~DuplicateFatal(DEFAULT_CONFIG,
                  IF Exists(handlers, key) THEN "present" ELSE "absent")

\* C20 as claimed: in every state Call, ValidateImpl and the duplicate check
\* of a strict RegisterContract agree on whether a key is present, a key
\* registered with a nil handler included.
C20_AsClaimed ==
  \A key \in Keys(TRUE) :
    /\ CallReportsAbsent(key) <=> ValidateReportsAbsent(key)
    /\ ValidateReportsAbsent(key) <=> StrictCheckPasses(key)

====
